---- MODULE Spec2Model ----
(***************************************************************************)
(* LogMaterializerV2::materializeV2 of rust/worker/src/segment/types.rs.   *)
(*                                                                         *)
(* A call of materializeV2 folds the batch `logs` of one materializer      *)
(* against the record segment: a first loop asks the record segment        *)
(* reader, log record by log record, whether the id has a durable record   *)
(* and fills existing_id_to_materialized; a second loop replays the batch  *)
(* into existing_id_to_materialized / new_id_to_materialized, taking       *)
(* offset ids from the shared AtomicU32 curr_max_offset_id; the two maps   *)
(* are then collected into the result.                                     *)
(*                                                                         *)
(* Every per-call variable is a function over the calls in progress, so    *)
(* that several materializers can share one curr_max_offset_id.            *)
(***************************************************************************)
EXTENDS Integers, Sequences, FiniteSets, TLC

VARIABLES
    segment,                      \* the record segment: durable id -> (DataRecord, offset id)
    curr_max_offset_id,           \* LogMaterializerV2.curr_max_offset_id (Arc<AtomicU32>)
    logs,                         \* call -> LogMaterializerV2.logs, the batch
    pc,                           \* call -> where the call is
    idx,                          \* call -> position in logs of the running loop
    existing_id_to_materialized,  \* call -> HashMap of the ids found in the segment
    new_id_to_materialized,       \* call -> HashMap of the ids created by the batch
    res,                          \* call -> the returned chunk, or the error
    start_offset,                 \* call -> curr_max_offset_id when the call started (history)
    allocated,                    \* call -> the values fetch_add returned to the call (history)
    queries                       \* call -> the reader queries the call issued (history)

vars == <<segment, curr_max_offset_id, logs, pc, idx, existing_id_to_materialized,
          new_id_to_materialized, res, start_offset, allocated, queries>>

----------------------------------------------------------------------------
(* Bounds of the model.                                                    *)

\* Longest batch.
MaxLen == 3

\* Longest batch of each of two concurrent calls.
MaxLenConcurrent == 2

\* Stands for u32::MAX: the counter is an AtomicU32 and fetch_add wraps. The
\* model keeps the wrap and scales the width down.
U32Max == 7

----------------------------------------------------------------------------
(* Values.                                                                 *)

None == "None"

NoneOpt == [tag |-> "None"]
Some(v) == [tag |-> "Some", val |-> v]
is_some(o) == o.tag = "Some"
is_none(o) == o.tag = "None"

Ids == {"id1", "id2", "id3"}

\* Operation
Operations == {"Add", "Update", "Delete", "Upsert"}

\* The payloads an OperationRecord carries in the model: nothing at all; an
\* embedding, a document and a metadata patch; the same with other values
\* and one more metadata key; a document alone. An absent embedding or
\* document is None; metadata is an Option of a map.
NoPayload == [embedding |-> None, metadata |-> NoneOpt, document |-> None]
Payload1 == [embedding |-> "e1", metadata |-> Some("a" :> "1"), document |-> "d1"]
Payload2 ==
    [embedding |-> "e2", metadata |-> Some(("a" :> "2") @@ ("b" :> "3")), document |-> "d2"]
DocumentOnly == [embedding |-> None, metadata |-> NoneOpt, document |-> "d3"]

Payloads == {NoPayload, Payload1, Payload2, DocumentOnly}

\* OperationRecord (the fields materializeV2 reads).
OperationRecord(id, operation, p) ==
    [id |-> id, operation |-> operation, embedding |-> p.embedding,
     metadata |-> p.metadata, document |-> p.document]

\* The log records of the batches. id1 and id2 receive every operation: an
\* Add without and with an embedding, an Update and an Upsert with and
\* without a payload, a Delete. id3 is only added and deleted. A Delete
\* carries no payload: the Delete branch reads none of it.
OperationRecords ==
    { OperationRecord(id, "Add", p) : id \in {"id1", "id2"}, p \in {NoPayload, Payload1} }
    \cup { OperationRecord(id, "Update", p) :
               id \in {"id1", "id2"}, p \in {NoPayload, Payload2, DocumentOnly} }
    \cup { OperationRecord(id, "Upsert", p) : id \in {"id1", "id2"}, p \in {NoPayload, Payload1} }
    \cup { OperationRecord(id, "Delete", NoPayload) : id \in {"id1", "id2"} }
    \cup { OperationRecord("id3", "Add", Payload1), OperationRecord("id3", "Delete", NoPayload) }

\* Every operation with every payload for every identifier.
AllOperationRecords ==
    { OperationRecord(id, op, p) : id \in Ids, op \in Operations \ {"Delete"}, p \in Payloads }
    \cup { OperationRecord(id, "Delete", NoPayload) : id \in Ids }

\* Chunk<LogRecord>: the batches of at most MaxLen log records of `records`.
BatchesOf(records) == UNION { [1..n -> records] : n \in 0..MaxLen }

Batches == BatchesOf(OperationRecords)

\* DataRecord
DataRecord(id, embedding, metadata, document) ==
    [id |-> id, embedding |-> embedding, metadata |-> metadata, document |-> document]

\* The record segment of the model: id1 is durable at offset 0; id2 and id3
\* are not in the segment.
Segments ==
    { ("id1" :> [data_record |-> DataRecord("id1", "e0", Some("a" :> "0"), "d0"),
                 offset_id |-> 0]) }

\* The values curr_max_offset_id starts from: above every durable offset,
\* far from the end of the counter's range or at it.
Starts == {1, U32Max}

----------------------------------------------------------------------------
(* HashMap.                                                                *)

EmptyMap == <<>>
contains_key(m, k) == k \in DOMAIN m
insert(m, k, v) == (k :> v) @@ m
remove(m, k) == [x \in DOMAIN m \ {k} |-> m[x]]
values(m) == { m[k] : k \in DOMAIN m }

----------------------------------------------------------------------------
(* The collaborators of crate::types and of the record segment reader.     *)

Ok(v) == [tag |-> "Ok", val |-> v]
Err(e) == [tag |-> "Err", err |-> e]
Pending == [tag |-> "Pending"]

\* UpdateMetadataValue::None, the value of a key the patch deletes. It has no
\* MetadataValue to be converted to.
DeleteMarker == "DeleteMarker"

\* update_metdata_to_metdata: an UpdateMetadata converted value by value to
\* a Metadata; a value that cannot be converted fails the conversion.
update_metdata_to_metdata(metadata) ==
    IF \E k \in DOMAIN metadata : metadata[k] = DeleteMarker
    THEN Err("MetadataValueConversionError")
    ELSE Ok([k \in DOMAIN metadata |-> metadata[k]])

\* merge_update_metadata: the base overlaid key by key by the patch, a key
\* the patch sets to the delete marker removed.
merge_update_metadata(base_metadata, update_metadata) ==
    IF is_none(base_metadata) /\ is_none(update_metadata) THEN NoneOpt
    ELSE LET base == IF is_some(base_metadata) THEN base_metadata.val ELSE EmptyMap
             upd  == IF is_some(update_metadata) THEN update_metadata.val ELSE EmptyMap
             keys == (DOMAIN base \ { k \in DOMAIN upd : upd[k] = DeleteMarker })
                     \cup { k \in DOMAIN upd : upd[k] # DeleteMarker }
         IN  Some([k \in keys |-> IF k \in DOMAIN upd THEN upd[k] ELSE base[k]])

\* RecordSegmentReader::data_exists_for_user_id, when the read succeeds.
data_exists_for_user_id(seg, user_id) == user_id \in DOMAIN seg

\* RecordSegmentReader::get_data_and_offset_id_for_user_id, when the read
\* succeeds.
get_data_and_offset_id_for_user_id(seg, user_id) == seg[user_id]

----------------------------------------------------------------------------
(* MaterializedLogRecordV2 and its conversions.                            *)

\* FromDataRecord, had it set user_id to the id of the data record.
FromDataRecord_with_user_id(data_record, offset_id) ==
    [data_record           |-> Some(data_record),
     offset_id             |-> offset_id,
     user_id               |-> data_record.id,
     final_operation       |-> "Add",
     metadata_to_be_merged |-> NoneOpt,
     final_document        |-> None,
     final_embedding       |-> None]

\* FromDataRecord, had it started metadata_to_be_merged from the metadata of
\* the data record.
FromDataRecord_with_metadata(data_record, offset_id) ==
    [data_record           |-> Some(data_record),
     offset_id             |-> offset_id,
     user_id               |-> None,
     final_operation       |-> "Add",
     metadata_to_be_merged |-> data_record.metadata,
     final_document        |-> None,
     final_embedding       |-> None]

\* From<(DataRecord, u32)> for MaterializedLogRecordV2
FromDataRecord(data_record, offset_id) ==
    [data_record           |-> Some(data_record),
     offset_id             |-> offset_id,
     user_id               |-> None,
     final_operation       |-> "Add",
     metadata_to_be_merged |-> NoneOpt,
     final_document        |-> None,
     final_embedding       |-> None]

\* TryFromOperationRecord, had it let a log record without an embedding
\* through.
TryFromOperationRecord_accepts_no_embedding(log_record, offset_id, user_id) ==
    LET metadata == IF is_some(log_record.metadata)
                    THEN update_metdata_to_metdata(log_record.metadata.val)
                    ELSE Ok(EmptyMap)
    IN  IF metadata.tag = "Err" THEN Err("MetadataMaterializationError")
        ELSE Ok([data_record           |-> NoneOpt,
                 offset_id             |-> offset_id,
                 user_id               |-> user_id,
                 final_operation       |-> "Add",
                 metadata_to_be_merged |-> IF is_some(log_record.metadata)
                                           THEN Some(metadata.val) ELSE NoneOpt,
                 final_document        |-> log_record.document,
                 final_embedding       |-> log_record.embedding])

\* TryFromOperationRecord, had it taken a patch that cannot be converted for
\* no patch at all.
TryFromOperationRecord_drops_bad_metadata(log_record, offset_id, user_id) ==
    LET metadata == IF is_some(log_record.metadata)
                    THEN update_metdata_to_metdata(log_record.metadata.val)
                    ELSE Ok(EmptyMap)
    IN  IF log_record.embedding = None THEN Err("EmbeddingMaterializationError")
        ELSE Ok([data_record           |-> NoneOpt,
                 offset_id             |-> offset_id,
                 user_id               |-> user_id,
                 final_operation       |-> "Add",
                 metadata_to_be_merged |-> IF is_some(log_record.metadata) /\ metadata.tag = "Ok"
                                           THEN Some(metadata.val) ELSE NoneOpt,
                 final_document        |-> log_record.document,
                 final_embedding       |-> log_record.embedding])

\* TryFrom<(&OperationRecord, u32, &str)> for MaterializedLogRecordV2: the
\* metadata is converted first, then the embedding is required.
TryFromOperationRecord(log_record, offset_id, user_id) ==
    LET metadata == IF is_some(log_record.metadata)
                    THEN update_metdata_to_metdata(log_record.metadata.val)
                    ELSE Ok(EmptyMap)
    IN  IF metadata.tag = "Err" THEN Err("MetadataMaterializationError")
        ELSE IF log_record.embedding = None THEN Err("EmbeddingMaterializationError")
        ELSE Ok([data_record           |-> NoneOpt,
                 offset_id             |-> offset_id,
                 user_id               |-> user_id,
                 final_operation       |-> "Add",
                 metadata_to_be_merged |-> IF is_some(log_record.metadata)
                                           THEN Some(metadata.val) ELSE NoneOpt,
                 final_document        |-> log_record.document,
                 final_embedding       |-> log_record.embedding])

\* fetch_add, had it returned the value it stores (an add_fetch).
fetch_add_returns_stored(counter) ==
    [returned |-> (counter + 1) % (U32Max + 1), stored |-> (counter + 1) % (U32Max + 1)]

\* fetch_add, had it been a load: the counter is read and left as it is.
fetch_add_load_only(counter) ==
    [returned |-> counter, stored |-> counter]

\* AtomicU32::fetch_add(1, SeqCst) on a counter holding `counter`: the call
\* returns the value held before and stores the sum, which wraps.
fetch_add(counter) ==
    [returned |-> counter, stored |-> (counter + 1) % (U32Max + 1)]

----------------------------------------------------------------------------
(* The branches of the replay loop, as functions of the record they touch. *)

\* DeleteExisting, had it left final_document as it was.
DeleteExisting_keeps_document(record_from_map) ==
    [record_from_map EXCEPT !.final_operation = "Delete",
                            !.final_embedding = None,
                            !.metadata_to_be_merged = NoneOpt,
                            !.user_id = None]

\* DeleteExisting, had it left metadata_to_be_merged as it was.
DeleteExisting_keeps_metadata(record_from_map) ==
    [record_from_map EXCEPT !.final_operation = "Delete",
                            !.final_document = None,
                            !.final_embedding = None,
                            !.user_id = None]

\* DeleteExisting, had it left final_operation as it was.
DeleteExisting_keeps_operation(record_from_map) ==
    [record_from_map EXCEPT !.final_document = None,
                            !.final_embedding = None,
                            !.metadata_to_be_merged = NoneOpt,
                            !.user_id = None]

\* Operation::Delete on an id of existing_id_to_materialized.
DeleteExisting(record_from_map) ==
    [record_from_map EXCEPT !.final_operation = "Delete",
                            !.final_document = None,
                            !.final_embedding = None,
                            !.metadata_to_be_merged = NoneOpt,
                            !.user_id = None]

\* MergePayload, had it overwritten final_document with whatever the
\* operation carries, None included.
MergePayload_overwrites_document(record_from_map, log_record) ==
    [record_from_map EXCEPT
        !.metadata_to_be_merged =
            merge_update_metadata(record_from_map.metadata_to_be_merged, log_record.metadata),
        !.final_document = log_record.document,
        !.final_embedding =
            IF log_record.embedding # None THEN log_record.embedding ELSE @]

\* MergePayload, had it replaced metadata_to_be_merged by the patch of the
\* operation instead of merging the two.
MergePayload_replaces_metadata(record_from_map, log_record) ==
    [record_from_map EXCEPT
        !.metadata_to_be_merged = log_record.metadata,
        !.final_document =
            IF log_record.document # None THEN log_record.document ELSE @,
        !.final_embedding =
            IF log_record.embedding # None THEN log_record.embedding ELSE @]

\* The payload part shared by Update and by the two updating Upsert
\* branches: merge the metadata, overwrite document and embedding when the
\* operation carries them.
MergePayload(record_from_map, log_record) ==
    [record_from_map EXCEPT
        !.metadata_to_be_merged =
            merge_update_metadata(record_from_map.metadata_to_be_merged, log_record.metadata),
        !.final_document =
            IF log_record.document # None THEN log_record.document ELSE @,
        !.final_embedding =
            IF log_record.embedding # None THEN log_record.embedding ELSE @]

\* UpdateRecord, had it set final_operation whatever created_in_log says.
UpdateRecord_always_update(record_from_map, log_record, created_in_log) ==
    [MergePayload(record_from_map, log_record) EXCEPT !.final_operation = "Update"]

\* Operation::Update on the record found; created_in_log tells that it was
\* found in new_id_to_materialized.
UpdateRecord(record_from_map, log_record, created_in_log) ==
    LET merged == MergePayload(record_from_map, log_record)
    IN  IF ~created_in_log THEN [merged EXCEPT !.final_operation = "Update"] ELSE merged

\* UpsertExisting, had it left final_operation as it was.
UpsertExisting_keeps_operation(record_from_map, log_record) ==
    MergePayload(record_from_map, log_record)

\* Operation::Upsert on an id of existing_id_to_materialized.
UpsertExisting(record_from_map, log_record) ==
    [MergePayload(record_from_map, log_record) EXCEPT !.final_operation = "Upsert"]

\* Operation::Upsert on an id of new_id_to_materialized.
UpsertNew(record_from_map, log_record) == MergePayload(record_from_map, log_record)

----------------------------------------------------------------------------
(* The state machine.                                                      *)

Calls == DOMAIN pc

\* The log record the running loop of call c is at.
log_record(c) == logs[c][idx[c]]

\* The calls of the set `calls` are about to start; each holds a batch of
\* `batches`, and all share the counter.
InitWith(calls, batches, segments, starts) ==
    /\ segment \in segments
    /\ curr_max_offset_id \in starts
    /\ logs \in [calls -> batches]
    /\ pc = [c \in calls |-> "exists"]
    /\ idx = [c \in calls |-> 1]
    /\ existing_id_to_materialized = [c \in calls |-> EmptyMap]
    /\ new_id_to_materialized = [c \in calls |-> EmptyMap]
    /\ res = [c \in calls |-> Pending]
    /\ start_offset = [c \in calls |-> curr_max_offset_id]
    /\ allocated = [c \in calls |-> <<>>]
    /\ queries = [c \in calls |-> <<>>]

\* One materializer and its call.
Init == InitWith({1}, Batches, Segments, Starts)

\* Fail, had the error been swallowed and an empty chunk returned.
Fail_returns_empty_chunk(c, e) ==
    /\ pc' = [pc EXCEPT ![c] = "done"]
    /\ res' = [res EXCEPT ![c] = Ok({})]

\* return Err(e)
Fail(c, e) ==
    /\ pc' = [pc EXCEPT ![c] = "error"]
    /\ res' = [res EXCEPT ![c] = Err(e)]

\* DataExists, had the first loop asked the reader once per distinct id: a
\* log record whose id was asked about before is passed without a query.
DataExists_once_per_id(c) ==
    /\ pc[c] = "exists"
    /\ idx[c] <= Len(logs[c])
    /\ IF \E i \in 1..Len(queries[c]) : queries[c][i] = <<"exists", log_record(c).id>>
       THEN /\ idx' = [idx EXCEPT ![c] = @ + 1]
            /\ UNCHANGED <<pc, res, queries>>
       ELSE /\ queries' = [queries EXCEPT ![c] = Append(@, <<"exists", log_record(c).id>>)]
            /\ \/ /\ Fail(c, "RecordSegmentError")
                  /\ UNCHANGED idx
               \/ /\ data_exists_for_user_id(segment, log_record(c).id)
                  /\ pc' = [pc EXCEPT ![c] = "get"]
                  /\ UNCHANGED <<idx, res>>
               \/ /\ ~data_exists_for_user_id(segment, log_record(c).id)
                  /\ idx' = [idx EXCEPT ![c] = @ + 1]
                  /\ UNCHANGED <<pc, res>>
    /\ UNCHANGED <<segment, curr_max_offset_id, logs, existing_id_to_materialized,
                   new_id_to_materialized, start_offset, allocated>>

\* First loop, the await of data_exists_for_user_id for the log record at
\* idx: the read fails, or it tells whether the id is in the segment.
DataExists(c) ==
    /\ pc[c] = "exists"
    /\ idx[c] <= Len(logs[c])
    /\ queries' = [queries EXCEPT ![c] = Append(@, <<"exists", log_record(c).id>>)]
    /\ \/ /\ Fail(c, "RecordSegmentError")
          /\ UNCHANGED idx
       \/ /\ data_exists_for_user_id(segment, log_record(c).id)
          /\ pc' = [pc EXCEPT ![c] = "get"]
          /\ UNCHANGED <<idx, res>>
       \/ /\ ~data_exists_for_user_id(segment, log_record(c).id)
          /\ idx' = [idx EXCEPT ![c] = @ + 1]
          /\ UNCHANGED <<pc, res>>
    /\ UNCHANGED <<segment, curr_max_offset_id, logs, existing_id_to_materialized,
                   new_id_to_materialized, start_offset, allocated>>

\* First loop, the await of get_data_and_offset_id_for_user_id for an id the
\* segment holds: the read fails, or the record goes into
\* existing_id_to_materialized.
GetData(c) ==
    /\ pc[c] = "get"
    /\ queries' = [queries EXCEPT ![c] = Append(@, <<"get", log_record(c).id>>)]
    /\ \/ /\ Fail(c, "RecordSegmentError")
          /\ UNCHANGED <<idx, existing_id_to_materialized>>
       \/ /\ LET found == get_data_and_offset_id_for_user_id(segment, log_record(c).id)
             IN  existing_id_to_materialized' =
                     [existing_id_to_materialized EXCEPT ![c] =
                         insert(@, log_record(c).id,
                                FromDataRecord(found.data_record, found.offset_id))]
          /\ pc' = [pc EXCEPT ![c] = "exists"]
          /\ idx' = [idx EXCEPT ![c] = @ + 1]
          /\ UNCHANGED res
    /\ UNCHANGED <<segment, curr_max_offset_id, logs, new_id_to_materialized,
                   start_offset, allocated>>

\* The first loop is over; the second starts at the head of the batch.
BeginReplay(c) ==
    /\ pc[c] = "exists"
    /\ idx[c] > Len(logs[c])
    /\ pc' = [pc EXCEPT ![c] = "replay"]
    /\ idx' = [idx EXCEPT ![c] = 1]
    /\ UNCHANGED <<segment, curr_max_offset_id, logs, existing_id_to_materialized,
                   new_id_to_materialized, res, start_offset, allocated, queries>>

\* The second loop is at a log record of operation op.
AtOperation(c, op) ==
    /\ pc[c] = "replay"
    /\ idx[c] <= Len(logs[c])
    /\ log_record(c).operation = op

\* What one pass of the second loop's body leaves: the two maps, the
\* counter, the offsets it took from the counter, and the error it returns
\* with (None when it goes on to the next log record).
Step(existing, new, counter, taken, error) ==
    [existing |-> existing, new |-> new, counter |-> counter, taken |-> taken,
     error |-> error]

\* ReplayAdd, had it looked for the id in new_id_to_materialized only.
ReplayAdd_without_existing_check(existing, new, counter, record) ==
    IF ~contains_key(new, record.id)
    THEN LET next_offset_id == fetch_add(counter)
             materialized_record ==
                 TryFromOperationRecord(record, next_offset_id.returned, record.id)
         IN  IF materialized_record.tag = "Ok"
             THEN Step(existing, insert(new, record.id, materialized_record.val),
                       next_offset_id.stored, <<next_offset_id.returned>>, None)
             ELSE Step(existing, new, next_offset_id.stored, <<next_offset_id.returned>>,
                       materialized_record.err)
    ELSE Step(existing, new, counter, <<>>, None)

\* ReplayAdd, had it taken the offset only once the conversion had
\* succeeded: a failed insert gives its offset back.
ReplayAdd_allocates_after_conversion(existing, new, counter, record) ==
    IF /\ ~contains_key(existing, record.id)
       /\ ~contains_key(new, record.id)
    THEN LET next_offset_id == fetch_add(counter)
             materialized_record ==
                 TryFromOperationRecord(record, next_offset_id.returned, record.id)
         IN  IF materialized_record.tag = "Ok"
             THEN Step(existing, insert(new, record.id, materialized_record.val),
                       next_offset_id.stored, <<next_offset_id.returned>>, None)
             ELSE Step(existing, new, counter, <<>>, materialized_record.err)
    ELSE Step(existing, new, counter, <<>>, None)

\* ReplayAdd, had it folded the payload of an Add into the record of an id
\* that is already in a map.
ReplayAdd_updates_present(existing, new, counter, record) ==
    IF contains_key(existing, record.id)
    THEN Step([existing EXCEPT ![record.id] = MergePayload(@, record)], new,
              counter, <<>>, None)
    ELSE IF contains_key(new, record.id)
    THEN Step(existing, [new EXCEPT ![record.id] = MergePayload(@, record)],
              counter, <<>>, None)
    ELSE LET next_offset_id == fetch_add(counter)
             materialized_record ==
                 TryFromOperationRecord(record, next_offset_id.returned, record.id)
         IN  IF materialized_record.tag = "Ok"
             THEN Step(existing, insert(new, record.id, materialized_record.val),
                       next_offset_id.stored, <<next_offset_id.returned>>, None)
             ELSE Step(existing, new, next_offset_id.stored, <<next_offset_id.returned>>,
                       materialized_record.err)

\* Operation::Add
ReplayAdd(existing, new, counter, record) ==
    IF /\ ~contains_key(existing, record.id)
       /\ ~contains_key(new, record.id)
    THEN LET next_offset_id == fetch_add(counter)
             materialized_record ==
                 TryFromOperationRecord(record, next_offset_id.returned, record.id)
         IN  IF materialized_record.tag = "Ok"
             THEN Step(existing, insert(new, record.id, materialized_record.val),
                       next_offset_id.stored, <<next_offset_id.returned>>, None)
             ELSE Step(existing, new, next_offset_id.stored, <<next_offset_id.returned>>,
                       materialized_record.err)
    ELSE Step(existing, new, counter, <<>>, None)

\* ReplayDelete, had it left a record of new_id_to_materialized in place.
ReplayDelete_keeps_new(existing, new, counter, record) ==
    IF contains_key(new, record.id)
    THEN Step(existing, new, counter, <<>>, None)
    ELSE IF contains_key(existing, record.id)
    THEN Step([existing EXCEPT ![record.id] = DeleteExisting(@)], new, counter, <<>>, None)
    ELSE Step(existing, new, counter, <<>>, None)

\* Operation::Delete
ReplayDelete(existing, new, counter, record) ==
    IF contains_key(new, record.id)
    THEN Step(existing, remove(new, record.id), counter, <<>>, None)
    ELSE IF contains_key(existing, record.id)
    THEN Step([existing EXCEPT ![record.id] = DeleteExisting(@)], new, counter, <<>>, None)
    ELSE Step(existing, new, counter, <<>>, None)

\* ReplayUpdate, had it inserted an id it finds in neither map.
ReplayUpdate_inserts_unknown(existing, new, counter, record) ==
    IF contains_key(existing, record.id)
    THEN Step([existing EXCEPT ![record.id] = UpdateRecord(@, record, FALSE)], new,
              counter, <<>>, None)
    ELSE IF contains_key(new, record.id)
    THEN Step(existing, [new EXCEPT ![record.id] = UpdateRecord(@, record, TRUE)],
              counter, <<>>, None)
    ELSE LET next_offset_id == fetch_add(counter)
             materialized_record ==
                 TryFromOperationRecord(record, next_offset_id.returned, record.id)
         IN  IF materialized_record.tag = "Ok"
             THEN Step(existing, insert(new, record.id, materialized_record.val),
                       next_offset_id.stored, <<next_offset_id.returned>>, None)
             ELSE Step(existing, new, next_offset_id.stored, <<next_offset_id.returned>>,
                       materialized_record.err)

\* Operation::Update
ReplayUpdate(existing, new, counter, record) ==
    IF contains_key(existing, record.id)
    THEN Step([existing EXCEPT ![record.id] = UpdateRecord(@, record, FALSE)], new,
              counter, <<>>, None)
    ELSE IF contains_key(new, record.id)
    THEN Step(existing, [new EXCEPT ![record.id] = UpdateRecord(@, record, TRUE)],
              counter, <<>>, None)
    ELSE Step(existing, new, counter, <<>>, None)

\* ReplayUpsert, had the record it inserts been marked as an Upsert.
ReplayUpsert_marks_upsert(existing, new, counter, record) ==
    IF contains_key(existing, record.id)
    THEN Step([existing EXCEPT ![record.id] = UpsertExisting(@, record)], new,
              counter, <<>>, None)
    ELSE IF contains_key(new, record.id)
    THEN Step(existing, [new EXCEPT ![record.id] = UpsertNew(@, record)],
              counter, <<>>, None)
    ELSE LET next_offset_id == fetch_add(counter)
             materialized_record ==
                 TryFromOperationRecord(record, next_offset_id.returned, record.id)
         IN  IF materialized_record.tag = "Ok"
             THEN Step(existing,
                       insert(new, record.id,
                              [materialized_record.val EXCEPT !.final_operation = "Upsert"]),
                       next_offset_id.stored, <<next_offset_id.returned>>, None)
             ELSE Step(existing, new, next_offset_id.stored, <<next_offset_id.returned>>,
                       materialized_record.err)

\* Operation::Upsert
ReplayUpsert(existing, new, counter, record) ==
    IF contains_key(existing, record.id)
    THEN Step([existing EXCEPT ![record.id] = UpsertExisting(@, record)], new,
              counter, <<>>, None)
    ELSE IF contains_key(new, record.id)
    THEN Step(existing, [new EXCEPT ![record.id] = UpsertNew(@, record)],
              counter, <<>>, None)
    ELSE LET next_offset_id == fetch_add(counter)
             materialized_record ==
                 TryFromOperationRecord(record, next_offset_id.returned, record.id)
         IN  IF materialized_record.tag = "Ok"
             THEN Step(existing, insert(new, record.id, materialized_record.val),
                       next_offset_id.stored, <<next_offset_id.returned>>, None)
             ELSE Step(existing, new, next_offset_id.stored, <<next_offset_id.returned>>,
                       materialized_record.err)

\* Replayed, had the second loop asked the record segment reader about the
\* id of its log record again.
Replayed_asks_reader(c, step) ==
    /\ existing_id_to_materialized' = [existing_id_to_materialized EXCEPT ![c] = step.existing]
    /\ new_id_to_materialized' = [new_id_to_materialized EXCEPT ![c] = step.new]
    /\ curr_max_offset_id' = step.counter
    /\ allocated' = [allocated EXCEPT ![c] = @ \o step.taken]
    /\ queries' = [queries EXCEPT ![c] = Append(@, <<"exists", log_record(c).id>>)]
    /\ IF step.error = None
       THEN /\ idx' = [idx EXCEPT ![c] = @ + 1]
            /\ UNCHANGED <<pc, res>>
       ELSE /\ Fail(c, step.error)
            /\ UNCHANGED idx
    /\ UNCHANGED <<segment, logs, start_offset>>

\* The body of the second loop has run on the log record at idx and left
\* step: the call goes on to the next log record, or returns the error.
Replayed(c, step) ==
    /\ existing_id_to_materialized' = [existing_id_to_materialized EXCEPT ![c] = step.existing]
    /\ new_id_to_materialized' = [new_id_to_materialized EXCEPT ![c] = step.new]
    /\ curr_max_offset_id' = step.counter
    /\ allocated' = [allocated EXCEPT ![c] = @ \o step.taken]
    /\ IF step.error = None
       THEN /\ idx' = [idx EXCEPT ![c] = @ + 1]
            /\ UNCHANGED <<pc, res>>
       ELSE /\ Fail(c, step.error)
            /\ UNCHANGED idx
    /\ UNCHANGED <<segment, logs, start_offset, queries>>

Add(c) ==
    /\ AtOperation(c, "Add")
    /\ Replayed(c, ReplayAdd(existing_id_to_materialized[c], new_id_to_materialized[c],
                             curr_max_offset_id, log_record(c)))

Delete(c) ==
    /\ AtOperation(c, "Delete")
    /\ Replayed(c, ReplayDelete(existing_id_to_materialized[c], new_id_to_materialized[c],
                                curr_max_offset_id, log_record(c)))

Update(c) ==
    /\ AtOperation(c, "Update")
    /\ Replayed(c, ReplayUpdate(existing_id_to_materialized[c], new_id_to_materialized[c],
                                curr_max_offset_id, log_record(c)))

Upsert(c) ==
    /\ AtOperation(c, "Upsert")
    /\ Replayed(c, ReplayUpsert(existing_id_to_materialized[c], new_id_to_materialized[c],
                                curr_max_offset_id, log_record(c)))

\* The chunk made of the values of the two maps (the order of a HashMap's
\* values is not kept: the chunk is their set).
CollectChunk(existing, new) == values(existing) \cup values(new)

\* The second loop is over: Ok(Chunk::new(res.into())).
Collect(c) ==
    /\ pc[c] = "replay"
    /\ idx[c] > Len(logs[c])
    /\ pc' = [pc EXCEPT ![c] = "done"]
    /\ res' = [res EXCEPT ![c] =
                  Ok(CollectChunk(existing_id_to_materialized[c], new_id_to_materialized[c]))]
    /\ UNCHANGED <<segment, curr_max_offset_id, logs, idx, existing_id_to_materialized,
                   new_id_to_materialized, start_offset, allocated, queries>>

\* One pass of the body of the second loop on a log record.
ReplayOne(existing, new, counter, record) ==
    CASE record.operation = "Add" -> ReplayAdd(existing, new, counter, record)
      [] record.operation = "Delete" -> ReplayDelete(existing, new, counter, record)
      [] record.operation = "Update" -> ReplayUpdate(existing, new, counter, record)
      [] record.operation = "Upsert" -> ReplayUpsert(existing, new, counter, record)

\* The second loop run on a batch from the given maps and counter, and the
\* collection that follows it: what the call returns and the value the
\* counter is left with.
RECURSIVE ReplayAll(_, _, _, _)
ReplayAll(existing, new, counter, batch) ==
    IF batch = <<>>
    THEN [res |-> Ok(CollectChunk(existing, new)), counter |-> counter]
    ELSE LET step == ReplayOne(existing, new, counter, Head(batch))
         IN  IF step.error # None
             THEN [res |-> Err(step.error), counter |-> step.counter]
             ELSE ReplayAll(step.existing, step.new, step.counter, Tail(batch))

Next ==
    \/ \E c \in Calls : DataExists(c)
    \/ \E c \in Calls : GetData(c)
    \/ \E c \in Calls : BeginReplay(c)
    \/ \E c \in Calls : Add(c)
    \/ \E c \in Calls : Delete(c)
    \/ \E c \in Calls : Update(c)
    \/ \E c \in Calls : Upsert(c)
    \/ \E c \in Calls : Collect(c)

Spec == Init /\ [][Next]_vars

\* The same materializer over the batches of every operation with every
\* payload for every identifier.
InitWide == InitWith({1}, BatchesOf(AllOperationRecords), Segments, Starts)

SpecWide == InitWide /\ [][Next]_vars

\* The log records of two concurrent calls: each of the four operations, an
\* Add and an Upsert that take an offset for two ids the segment does not
\* hold, a Delete of the first, an Update of the durable id.
ConcurrentRecords ==
    { OperationRecord("id2", "Add", Payload1),
      OperationRecord("id3", "Upsert", Payload1),
      OperationRecord("id2", "Delete", NoPayload),
      OperationRecord("id1", "Update", Payload2) }

\* The batches of at most MaxLenConcurrent of these log records.
ConcurrentBatches == UNION { [1..n -> ConcurrentRecords] : n \in 0..MaxLenConcurrent }

\* Two materializers that share the Arc<AtomicU32> and read the same record
\* segment, each with its own batch; their calls run concurrently, every
\* step of one between any two steps of the other.
InitConcurrent == InitWith({1, 2}, ConcurrentBatches, Segments, Starts)

SpecConcurrent == InitConcurrent /\ [][Next]_vars

\* Two payloads whose metadata patch cannot be converted to a Metadata: one
\* with an embedding and a document, one with neither.
BadMetadata ==
    [embedding |-> "e1", metadata |-> Some("a" :> DeleteMarker), document |-> "d1"]
BadMetadataNoEmbedding ==
    [embedding |-> None, metadata |-> Some("a" :> DeleteMarker), document |-> None]

\* The log records of the batches that fail a conversion: for the id the
\* segment does not hold, Adds and Upserts that lack an embedding, carry such
\* a patch, or both, next to a good Add, an Update with such a patch and a
\* Delete; for the durable id, an Add, an Update and an Upsert with such a
\* patch.
ConversionRecords ==
    { OperationRecord("id2", op, p) :
          op \in {"Add", "Upsert"}, p \in {NoPayload, BadMetadata, BadMetadataNoEmbedding} }
    \cup { OperationRecord("id2", "Add", Payload1),
           OperationRecord("id2", "Update", BadMetadataNoEmbedding),
           OperationRecord("id2", "Delete", NoPayload),
           OperationRecord("id1", "Add", BadMetadataNoEmbedding),
           OperationRecord("id1", "Update", BadMetadataNoEmbedding),
           OperationRecord("id1", "Upsert", BadMetadata) }

\* One materializer with a batch of these log records.
InitConversion == InitWith({1}, BatchesOf(ConversionRecords), Segments, Starts)

SpecConversion == InitConversion /\ [][Next]_vars

----------------------------------------------------------------------------
(* The fixture of tests::test_materializer_v2.                             *)

\* The metadata of the two records the test writes to the record segment,
\* and the patch its log records carry.
FixtureMetadata == ("hello" :> "world") @@ ("bye" :> "world")
FixturePatch == ("hello" :> "new_world") @@ ("hello_again" :> "new_world")

\* The record segment the test builds: embedding_id_1 at offset 1 and
\* embedding_id_2 at offset 2 (id1 and id2 here; embedding_id_3 is id3).
FixtureSegment ==
    ("id1" :> [data_record |-> DataRecord("id1", "[1,2,3]", Some(FixtureMetadata), "doc1"),
               offset_id |-> 1])
    @@ ("id2" :> [data_record |-> DataRecord("id2", "[4,5,6]", Some(FixtureMetadata), "doc2"),
                  offset_id |-> 2])

\* AtomicU32::new(3)
FixtureStart == 3

\* The three log records of the test.
FixtureUpdate ==
    OperationRecord("id1", "Update",
                    [embedding |-> None, metadata |-> Some(FixturePatch), document |-> None])
FixtureAdd ==
    OperationRecord("id3", "Add",
                    [embedding |-> "[7,8,9]", metadata |-> Some(FixturePatch),
                     document |-> "doc3"])
FixtureDelete == OperationRecord("id2", "Delete", NoPayload)

\* The batch of the test.
FixtureBatch == << FixtureUpdate, FixtureAdd, FixtureDelete >>

\* The log records of the test, and its two payloads sent as Upserts.
FixtureRecords ==
    { FixtureUpdate, FixtureAdd, FixtureDelete,
      [FixtureUpdate EXCEPT !.operation = "Upsert"],
      [FixtureAdd EXCEPT !.operation = "Upsert"] }

\* One materializer over the segment of the test, its counter at 3, with a
\* batch made of the log records of the test.
InitFixture == InitWith({1}, BatchesOf(FixtureRecords), {FixtureSegment}, {FixtureStart})

SpecFixture == InitFixture /\ [][Next]_vars

----------------------------------------------------------------------------
(* What the properties speak of: the batch, the segment, the output.       *)

\* The call returned Ok(chunk).
Done(c) == pc[c] = "done"

\* The records of the returned chunk.
Output(c) == res[c].val

\* The identifier a materialized record stands for: the id of its data
\* record when it has one, its user_id otherwise.
RecordId(r) == IF is_some(r.data_record) THEN r.data_record.val.id ELSE r.user_id

\* The records the output holds for an identifier.
OutputFor(c, id) == { r \in Output(c) : RecordId(r) = id }

\* The identifier has a durable record, at offset DurableOffset(id).
Durable(id) == id \in DOMAIN segment
DurableOffset(id) == segment[id].offset_id

\* The positions of the batch that hold an operation of `ops` for id.
Positions(c, id, ops) ==
    { i \in 1..Len(logs[c]) : logs[c][i].id = id /\ logs[c][i].operation \in ops }

SetMax(S) == CHOOSE x \in S : \A y \in S : y <= x

\* The last operation of `ops` for id is of kind op.
LastIs(c, id, ops, op) ==
    /\ Positions(c, id, ops) # {}
    /\ logs[c][SetMax(Positions(c, id, ops))].operation = op

\* A record that asks for the deletion of the durable record at offset.
IsDeleteAt(r, offset) ==
    /\ r.offset_id = offset
    /\ r.final_operation = "Delete"
    /\ r.final_document = None
    /\ r.final_embedding = None
    /\ is_none(r.metadata_to_be_merged)
    /\ r.user_id = None
    /\ is_some(r.data_record)

----------------------------------------------------------------------------
(* C1 *)

\* C1, as claimed: for every batch and every identifier that has a durable
\* record at offset O and receives a Delete in the batch, the output holds
\* exactly one record for the identifier, with offset_id = O, final_operation
\* = Delete and final_document, final_embedding, metadata_to_be_merged and
\* user_id all None, its data_record populated.
C1_DeleteReceived ==
    \A c \in Calls : \A id \in Ids :
        (Done(c) /\ Durable(id) /\ Positions(c, id, {"Delete"}) # {})
            => \E r \in Output(c) :
                   /\ OutputFor(c, id) = {r}
                   /\ IsDeleteAt(r, DurableOffset(id))

\* C1, amended: for every batch the call succeeds on and every identifier
\* that has a durable record at offset O and whose last Update, Upsert or
\* Delete in the batch is a Delete, the output holds exactly one record for
\* the identifier, with offset_id = O, final_operation = Delete and
\* final_document, final_embedding, metadata_to_be_merged and user_id all
\* None, its data_record populated. (An Update or Upsert after the Delete
\* makes final_operation Update or Upsert again.)
C1_DeleteLast ==
    \A c \in Calls : \A id \in Ids :
        (Done(c) /\ Durable(id) /\ LastIs(c, id, {"Update", "Upsert", "Delete"}, "Delete"))
            => \E r \in Output(c) :
                   /\ OutputFor(c, id) = {r}
                   /\ IsDeleteAt(r, DurableOffset(id))

\* A call has returned for a batch that gives a durable identifier a
\* document and an embedding, then deletes it, then adds it again.
C1_Witness ==
    \E c \in Calls : \E id \in Ids :
        /\ Done(c)
        /\ Durable(id)
        /\ Len(logs[c]) = 3
        /\ logs[c][1].id = id /\ logs[c][1].operation = "Upsert" /\ logs[c][1].document # None
        /\ logs[c][2].id = id /\ logs[c][2].operation = "Delete"
        /\ logs[c][3].id = id /\ logs[c][3].operation = "Add" /\ logs[c][3].embedding # None

----------------------------------------------------------------------------
(* C2 *)

\* The identifier is Added and later Deleted in the batch.
AddedThenDeleted(c, id) ==
    \E i \in Positions(c, id, {"Add"}) : \E j \in Positions(c, id, {"Delete"}) : i < j

\* C2, as claimed: for all batches in which an identifier with no durable
\* record is Added and then Deleted, the output holds no record for it.
C2_AddedThenDeleted ==
    \A c \in Calls : \A id \in Ids :
        (Done(c) /\ ~Durable(id) /\ AddedThenDeleted(c, id)) => OutputFor(c, id) = {}

\* C2, amended: for all batches in which an identifier with no durable
\* record is Added and then Deleted and no Add or Upsert for it follows its
\* last Delete, the output holds no record for it.
C2_DeletedLast ==
    \A c \in Calls : \A id \in Ids :
        (/\ Done(c)
         /\ ~Durable(id)
         /\ AddedThenDeleted(c, id)
         /\ LastIs(c, id, {"Add", "Upsert", "Delete"}, "Delete"))
            => OutputFor(c, id) = {}

\* A call has returned for a batch that adds an identifier the segment does
\* not hold, with an embedding, and then deletes it.
C2_Witness ==
    \E c \in Calls : \E id \in Ids :
        /\ Done(c)
        /\ ~Durable(id)
        /\ \E i, j \in 1..Len(logs[c]) :
              /\ i < j
              /\ logs[c][i].id = id /\ logs[c][i].operation = "Add"
              /\ logs[c][i].embedding # None
              /\ logs[c][j].id = id /\ logs[c][j].operation = "Delete"
              /\ LastIs(c, id, {"Add", "Upsert", "Delete"}, "Delete")

----------------------------------------------------------------------------
(* C3 *)

\* The durable offsets are pairwise distinct and the counter started above
\* all of them.
OffsetsPrecondition(c) ==
    /\ \A a, b \in DOMAIN segment : a # b => DurableOffset(a) # DurableOffset(b)
    /\ \A a \in DOMAIN segment : start_offset[c] > DurableOffset(a)

\* C3: for every batch, when the durable offsets are pairwise distinct and
\* the counter starts above all of them, the offset_id values of the records
\* one call returns are pairwise distinct.
C3_OffsetsDistinct ==
    \A c \in Calls :
        (Done(c) /\ OffsetsPrecondition(c))
            => \A r1, r2 \in Output(c) : r1 # r2 => r1.offset_id # r2.offset_id

\* The same, for the calls during which the counter did not pass u32::MAX.
\* (Not a claim's formula: what is left of C3 away from the wrap.)
OffsetsDistinctBeforeWrap ==
    \A c \in Calls :
        (Done(c) /\ OffsetsPrecondition(c) /\ start_offset[c] <= curr_max_offset_id)
            => \A r1, r2 \in Output(c) : r1 # r2 => r1.offset_id # r2.offset_id

----------------------------------------------------------------------------
(* C4 *)

\* The records of the output that have no durable origin: their offset_id
\* was taken from the counter by the call.
NewRecords(c) == { r \in Output(c) : is_none(r.data_record) }

RECURSIVE SumOfLen(_, _)
SumOfLen(f, S) ==
    IF S = {} THEN 0
    ELSE LET x == CHOOSE y \in S : TRUE IN Len(f[x]) + SumOfLen(f, S \ {x})

\* The number of values taken from the counter so far, by all calls.
Allocations == SumOfLen(allocated, Calls)

\* C4, as claimed: every offset_id newly allocated by a call (the offset_id
\* of every output record without a durable origin) is strictly greater than
\* the value the counter held when the call started.
C4_AboveStart ==
    \A c \in Calls :
        Done(c) => \A r \in NewRecords(c) : r.offset_id > start_offset[c]

\* C4, amended: every offset_id newly allocated by a call is the value the
\* counter held when the call started advanced, modulo 2^32, by the number
\* of allocations made on the counter in between; the first one is the
\* starting value itself. So it is greater than or equal to the starting
\* value, not strictly greater, unless the counter has wrapped.
C4_FromStart ==
    \A c \in Calls :
        Done(c) =>
            \A r \in NewRecords(c) :
                /\ \E k \in 0..(Allocations - 1) :
                       r.offset_id = (start_offset[c] + k) % (U32Max + 1)
                /\ (start_offset[c] + Allocations - 1 <= U32Max)
                       => r.offset_id >= start_offset[c]

\* A call has returned two records without a durable origin, one of them at
\* the very value the counter started from.
C4_Witness ==
    \E c \in Calls :
        /\ Done(c)
        /\ \E r1, r2 \in NewRecords(c) :
              /\ r1.offset_id = start_offset[c]
              /\ r2.offset_id = start_offset[c] + 1

----------------------------------------------------------------------------
(* C5 *)

\* The identifier is inserted (Add or Upsert) and later receives an Update
\* or an Upsert, with no Delete for it in between.
InsertedThenUpdated(c, id) ==
    \E i \in Positions(c, id, {"Add", "Upsert"}) :
        \E j \in Positions(c, id, {"Update", "Upsert"}) :
            /\ i < j
            /\ \A d \in Positions(c, id, {"Delete"}) : ~(i < d /\ d < j)

\* C5: for every identifier that has no durable record and is inserted and
\* then receives Update or Upsert operations in the same batch without an
\* intervening Delete, the output record's final_operation is Add, never
\* Update or Upsert; the record is in the output unless a Delete is the
\* last Add, Upsert or Delete for the identifier.
C5_InsertStaysAdd ==
    \A c \in Calls : \A id \in Ids :
        (Done(c) /\ ~Durable(id) /\ InsertedThenUpdated(c, id))
            => /\ \A r \in OutputFor(c, id) : r.final_operation = "Add"
               /\ ~LastIs(c, id, {"Add", "Upsert", "Delete"}, "Delete")
                      => OutputFor(c, id) # {}

\* A call has returned for a batch that adds an identifier the segment does
\* not hold, then updates it, then upserts it.
C5_Witness ==
    \E c \in Calls : \E id \in Ids :
        /\ Done(c)
        /\ ~Durable(id)
        /\ Len(logs[c]) = 3
        /\ logs[c][1].id = id /\ logs[c][1].operation = "Add"
        /\ logs[c][2].id = id /\ logs[c][2].operation = "Update"
        /\ logs[c][3].id = id /\ logs[c][3].operation = "Upsert"
        /\ \E r \in OutputFor(c, id) : r.final_operation = "Add"

----------------------------------------------------------------------------
(* C6 *)

\* The second loop of call c is at an Update or a Delete for an identifier
\* that the segment does not hold and that is not in new_id_to_materialized.
AtUnknownId(c) ==
    /\ pc[c] = "replay"
    /\ idx[c] <= Len(logs[c])
    /\ log_record(c).operation \in {"Update", "Delete"}
    /\ ~Durable(log_record(c).id)
    /\ ~contains_key(new_id_to_materialized[c], log_record(c).id)

\* C6: an Update or a Delete for an identifier that is absent from the
\* durable segment and not currently in the batch's own inserts yields no
\* record and no error, and leaves both tables and the counter unchanged:
\* the step that handles it only moves the call to the next log record.
C6_UnknownIdNoop ==
    [][\A c \in Calls :
          (AtUnknownId(c) /\ <<pc[c], idx[c]>>' # <<pc[c], idx[c]>>)
              => /\ existing_id_to_materialized'[c] = existing_id_to_materialized[c]
                 /\ new_id_to_materialized'[c] = new_id_to_materialized[c]
                 /\ curr_max_offset_id' = curr_max_offset_id
                 /\ pc'[c] = "replay"
                 /\ res'[c] = Pending
                 /\ idx'[c] = idx[c] + 1]_vars

\* The second loop has inserted an identifier and has then gone past an
\* Update or a Delete for another identifier, which is in neither table.
C6_Witness ==
    \E c \in Calls :
        /\ pc[c] = "replay"
        /\ idx[c] = 3
        /\ logs[c][1].operation = "Add"
        /\ contains_key(new_id_to_materialized[c], logs[c][1].id)
        /\ logs[c][2].operation \in {"Update", "Delete"}
        /\ logs[c][2].id # logs[c][1].id
        /\ ~Durable(logs[c][2].id)

----------------------------------------------------------------------------
(* C7 *)

\* The records a call holds in its two maps, and those it has returned.
Materialized(c) ==
    values(existing_id_to_materialized[c]) \cup values(new_id_to_materialized[c])
    \cup (IF Done(c) THEN Output(c) ELSE {})

\* C7: a materialized record has a user_id if and only if it has no durable
\* origin (its data_record is None); a record with a durable origin has
\* user_id = None after any sequence of operations for its identifier. This
\* holds of every output and of the two maps all along.
C7_UserIdIffNew ==
    \A c \in Calls : \A r \in Materialized(c) :
        (r.user_id # None) <=> is_none(r.data_record)

\* A call has returned a record with a durable origin that an Upsert with a
\* payload touched, and a record without one.
C7_Witness ==
    \E c \in Calls :
        /\ Done(c)
        /\ \E r \in Output(c) :
              /\ is_some(r.data_record)
              /\ r.final_operation = "Upsert"
              /\ r.final_embedding # None
        /\ \E r \in Output(c) : is_none(r.data_record)

----------------------------------------------------------------------------
(* C8 *)

\* C8: in every state of the replay pass and in every output, a record
\* whose final_operation is Delete has metadata_to_be_merged, final_document
\* and final_embedding all None, also when Update, Upsert or Add operations
\* for the same identifier follow the Delete.
C8_DeleteHasNoPayload ==
    \A c \in Calls : \A r \in Materialized(c) :
        r.final_operation = "Delete"
            => /\ is_none(r.metadata_to_be_merged)
               /\ r.final_document = None
               /\ r.final_embedding = None

\* The replay pass has given a durable identifier a payload, deleted it and
\* gone past an Add with a payload for it: its record is still a Delete.
C8_Witness ==
    \E c \in Calls : \E id \in Ids :
        /\ pc[c] = "replay"
        /\ idx[c] = 4
        /\ logs[c][1].id = id /\ logs[c][1].operation = "Update"
        /\ is_some(logs[c][1].metadata) /\ logs[c][1].embedding # None
        /\ logs[c][2].id = id /\ logs[c][2].operation = "Delete"
        /\ logs[c][3].id = id /\ logs[c][3].operation = "Add"
        /\ logs[c][3].document # None
        /\ contains_key(existing_id_to_materialized[c], id)
        /\ existing_id_to_materialized[c][id].final_operation = "Delete"

----------------------------------------------------------------------------
(* C9 *)

\* C9: every identifier appears at most once in the output, and at every
\* point of the call no identifier is a key of both maps.
C9_AtMostOnce ==
    \A c \in Calls :
        /\ DOMAIN existing_id_to_materialized[c] \cap DOMAIN new_id_to_materialized[c] = {}
        /\ Done(c) => \A id \in Ids : Cardinality(OutputFor(c, id)) <= 1

\* A call has returned for a batch that adds a durable identifier (with an
\* embedding) and adds another identifier twice.
C9_Witness ==
    \E c \in Calls :
        /\ Done(c)
        /\ Len(logs[c]) = 3
        /\ \A i \in 1..3 : logs[c][i].operation = "Add" /\ logs[c][i].embedding # None
        /\ Durable(logs[c][1].id)
        /\ ~Durable(logs[c][2].id)
        /\ logs[c][3].id = logs[c][2].id
        /\ Cardinality(Output(c)) = 2

----------------------------------------------------------------------------
(* C10 *)

SetMin(S) == CHOOSE x \in S : \A y \in S : x <= y

\* The document, the embedding of the last log record among the positions P
\* that carries one; None when none does.
LastDocument(c, P) ==
    LET S == { i \in P : logs[c][i].document # None }
    IN  IF S = {} THEN None ELSE logs[c][SetMax(S)].document

LastEmbedding(c, P) ==
    LET S == { i \in P : logs[c][i].embedding # None }
    IN  IF S = {} THEN None ELSE logs[c][SetMax(S)].embedding

\* The position of the last Delete for the identifier, 0 when it has none.
LastDelete(c, id) ==
    IF Positions(c, id, {"Delete"}) = {} THEN 0 ELSE SetMax(Positions(c, id, {"Delete"}))

\* The operations of the batch that were applied to the record the call
\* ends with for the identifier: those that follow the identifier's last
\* Delete, without the Adds that found the identifier in a table and
\* without the Updates that found it in none. For a durable identifier they
\* are the Updates and Upserts after the last Delete; for another one, the
\* first Add or Upsert after the last Delete and the Updates and Upserts
\* that follow it.
AppliedPositions(c, id) ==
    IF Durable(id)
    THEN { i \in Positions(c, id, {"Update", "Upsert"}) : i > LastDelete(c, id) }
    ELSE LET inserts == { i \in Positions(c, id, {"Add", "Upsert"}) : i > LastDelete(c, id) }
         IN  IF inserts = {} THEN {}
             ELSE {SetMin(inserts)}
                  \cup { i \in Positions(c, id, {"Update", "Upsert"}) : i > SetMin(inserts) }

\* C10, as claimed: for every output record whose final_operation is not
\* Delete, final_document (and likewise final_embedding) is the value
\* carried by the last operation in the batch for that identifier that
\* supplied a non-null value for that field, and None when no operation for
\* that identifier supplied one.
C10_LastNonNullOfBatch ==
    \A c \in Calls :
        Done(c) =>
            \A r \in Output(c) :
                r.final_operation # "Delete"
                    => /\ r.final_document =
                              LastDocument(c, Positions(c, RecordId(r), Operations))
                       /\ r.final_embedding =
                              LastEmbedding(c, Positions(c, RecordId(r), Operations))

\* C10, amended: for every output record whose final_operation is not
\* Delete, final_document (and likewise final_embedding) is the value
\* carried by the last operation applied to the record that supplied a
\* non-null value for that field, and None when none did; the operations
\* applied to the record are those for its identifier that follow the
\* identifier's last Delete, without the Adds ignored because the
\* identifier was in a table and the Updates ignored because it was in none.
C10_LastNonNullApplied ==
    \A c \in Calls :
        Done(c) =>
            \A r \in Output(c) :
                r.final_operation # "Delete"
                    => /\ r.final_document =
                              LastDocument(c, AppliedPositions(c, RecordId(r)))
                       /\ r.final_embedding =
                              LastEmbedding(c, AppliedPositions(c, RecordId(r)))

\* A call has returned a record whose embedding comes from the first
\* operation for its identifier, whose document comes from the second, and
\* whose third operation carries neither.
C10_Witness ==
    \E c \in Calls : \E r \in Materialized(c) :
        /\ Done(c)
        /\ r \in Output(c)
        /\ Len(logs[c]) = 3
        /\ \A i \in 1..3 : logs[c][i].id = RecordId(r)
        /\ logs[c][1].embedding # None /\ logs[c][1].document # None
        /\ logs[c][2].embedding = None /\ logs[c][2].document # None
        /\ logs[c][3].embedding = None /\ logs[c][3].document = None
        /\ r.final_operation # "Delete"
        /\ r.final_embedding = logs[c][1].embedding
        /\ r.final_document = logs[c][2].document
        /\ r.final_document # logs[c][1].document

----------------------------------------------------------------------------
(* C11 *)

\* The positions among P whose log record carries a metadata patch, and
\* those whose patch sets the key k.
WithMetadata(c, P) == { i \in P : is_some(logs[c][i].metadata) }
SettingKey(c, P, k) == { i \in WithMetadata(c, P) : k \in DOMAIN logs[c][i].metadata.val }

\* The metadata in which each key holds the value of the last log record
\* among the positions P that set it; None when none carries a patch.
LastWrites(c, P) ==
    IF WithMetadata(c, P) = {} THEN NoneOpt
    ELSE LET keys == UNION { DOMAIN logs[c][i].metadata.val : i \in WithMetadata(c, P) }
         IN  Some([k \in keys |-> logs[c][SetMax(SettingKey(c, P, k))].metadata.val[k]])

\* C11, as claimed: in every output record whose final_operation is not
\* Delete, each key of the merged metadata holds the value of the last
\* operation of the batch for the identifier that set it.
C11_LastWriteOfBatch ==
    \A c \in Calls :
        Done(c) =>
            \A r \in Output(c) :
                r.final_operation # "Delete"
                    => r.metadata_to_be_merged =
                           LastWrites(c, Positions(c, RecordId(r), Operations))

\* C11, amended: in every output record whose final_operation is not
\* Delete, each key of the merged metadata holds the value of the last
\* operation applied to the record that set it, and the merged metadata is
\* None when none carried a patch; the operations applied to the record are
\* those for its identifier that follow the identifier's last Delete,
\* without the Adds ignored because the identifier was in a table and the
\* Updates ignored because it was in none. So, for a new identifier, Add
\* with metadata {a:1} followed by Update with metadata {a:2, b:3} yields
\* merged metadata exactly {a:2, b:3}.
C11_LastWriteApplied ==
    \A c \in Calls :
        Done(c) =>
            \A r \in Output(c) :
                r.final_operation # "Delete"
                    => r.metadata_to_be_merged = LastWrites(c, AppliedPositions(c, RecordId(r)))

\* A call has returned for the batch that adds a new identifier with
\* metadata {a:1} and then updates it with metadata {a:2, b:3}: the record
\* holds {a:2, b:3}.
C11_Witness ==
    \E c \in Calls : \E id \in Ids :
        /\ Done(c)
        /\ ~Durable(id)
        /\ logs[c] = << OperationRecord(id, "Add", Payload1),
                        OperationRecord(id, "Update", Payload2) >>
        /\ \E r \in Output(c) :
              /\ OutputFor(c, id) = {r}
              /\ r.metadata_to_be_merged = Some(("a" :> "2") @@ ("b" :> "3"))

----------------------------------------------------------------------------
(* C12 *)

\* The call has returned for the batch of the test.
FixtureDone(c) == Done(c) /\ logs[c] = FixtureBatch

\* C12: with the segment holding id1 at offset 1 and id2 at offset 2, the
\* counter at 3 and the batch [Update(id1, metadata only), Add(id3,
\* embedding [7,8,9], doc3, metadata), Delete(id2)], the call returns
\* exactly 3 records: id1 with offset 1, final_operation Update, document
\* and embedding None, user_id None; id2 with offset 2, final_operation
\* Delete, all payload None; id3 with offset 3, final_operation Add,
\* user_id id3, no durable origin, document doc3, embedding [7,8,9].
C12_Fixture ==
    \A c \in Calls :
        FixtureDone(c) =>
            /\ Cardinality(Output(c)) = 3
            /\ \E r \in Output(c) :
                  /\ OutputFor(c, "id1") = {r}
                  /\ r.offset_id = 1
                  /\ r.final_operation = "Update"
                  /\ r.final_document = None
                  /\ r.final_embedding = None
                  /\ r.user_id = None
                  /\ is_some(r.data_record)
            /\ \E r \in Output(c) :
                  /\ OutputFor(c, "id2") = {r}
                  /\ r.offset_id = 2
                  /\ r.final_operation = "Delete"
                  /\ r.final_document = None
                  /\ r.final_embedding = None
                  /\ is_none(r.metadata_to_be_merged)
                  /\ r.user_id = None
                  /\ is_some(r.data_record)
            /\ \E r \in Output(c) :
                  /\ OutputFor(c, "id3") = {r}
                  /\ r.offset_id = 3
                  /\ r.final_operation = "Add"
                  /\ r.user_id = "id3"
                  /\ is_none(r.data_record)
                  /\ r.final_document = "doc3"
                  /\ r.final_embedding = "[7,8,9]"

\* The call has returned three records for the batch of the test, from the
\* segment of the test and the counter at 3.
C12_Witness ==
    \E c \in Calls :
        /\ FixtureDone(c)
        /\ segment = FixtureSegment
        /\ start_offset[c] = FixtureStart
        /\ Cardinality(Output(c)) = 3

----------------------------------------------------------------------------
(* C13 *)

\* C13, as claimed: in the fixture scenario the output record of id1 has
\* merged metadata exactly {hello:new_world, bye:world,
\* hello_again:new_world}, the durable record's metadata overlaid by the
\* patch.
C13_DurableOverlaid ==
    \A c \in Calls :
        FixtureDone(c) =>
            \A r \in OutputFor(c, "id1") :
                r.metadata_to_be_merged =
                    Some(("hello" :> "new_world") @@ ("bye" :> "world")
                         @@ ("hello_again" :> "new_world"))

\* C13, amended: in the fixture scenario the output record of id1 has
\* merged metadata exactly {hello:new_world, hello_again:new_world}, the
\* patch of the Update alone; the durable record's metadata {hello:world,
\* bye:world} stays in its data_record and is not merged in.
C13_PatchOnly ==
    \A c \in Calls :
        FixtureDone(c) =>
            /\ OutputFor(c, "id1") # {}
            /\ \A r \in OutputFor(c, "id1") :
                  /\ r.metadata_to_be_merged =
                         Some(("hello" :> "new_world") @@ ("hello_again" :> "new_world"))
                  /\ r.data_record.val.metadata =
                         Some(("hello" :> "world") @@ ("bye" :> "world"))

\* The call has returned, for the batch of the test, a record of id1 whose
\* merged metadata has no key bye while its data record has one.
C13_Witness ==
    \E c \in Calls : \E r \in Materialized(c) :
        /\ FixtureDone(c)
        /\ r \in OutputFor(c, "id1")
        /\ is_some(r.metadata_to_be_merged)
        /\ "bye" \notin DOMAIN r.metadata_to_be_merged.val
        /\ "bye" \in DOMAIN r.data_record.val.metadata.val

----------------------------------------------------------------------------
(* C14 *)

\* The values fetch_add has returned to call c so far.
Allocated(c) == { allocated[c][i] : i \in 1..Len(allocated[c]) }

\* The offset ids of the records call c returned without a durable origin.
NewOffsets(c) == { r.offset_id : r \in NewRecords(c) }

\* C14: at every point of every interleaving of two calls that share the
\* counter, no value the counter returned to one call was returned to the
\* other, and the offset ids the two calls return for new records are
\* disjoint.
C14_DisjointAllocations ==
    \A c1, c2 \in Calls :
        c1 # c2 =>
            /\ Allocated(c1) \cap Allocated(c2) = {}
            /\ (Done(c1) /\ Done(c2)) => NewOffsets(c1) \cap NewOffsets(c2) = {}

\* Two calls have returned after taking two offsets each in turn: the
\* first, the second, the first, the second.
C14_Witness ==
    \E c1, c2 \in Calls :
        /\ c1 # c2
        /\ Done(c1) /\ Done(c2)
        /\ Len(allocated[c1]) = 2 /\ Len(allocated[c2]) = 2
        /\ allocated[c1][1] = start_offset[c1]
        /\ allocated[c2][1] = (start_offset[c1] + 1) % (U32Max + 1)
        /\ allocated[c1][2] = (start_offset[c1] + 2) % (U32Max + 1)
        /\ allocated[c2][2] = (start_offset[c1] + 3) % (U32Max + 1)
        /\ NewOffsets(c1) # {} /\ NewOffsets(c2) # {}

----------------------------------------------------------------------------
(* C15 *)

\* C15: every value the counter hands out is strictly greater than every
\* value it returned before, from any starting value, the largest 32-bit
\* value included.
C15_StrictlyIncreasing ==
    \A c \in Calls :
        \A i, j \in 1..Len(allocated[c]) : i < j => allocated[c][i] < allocated[c][j]

\* The same, for the calls during which the counter did not pass u32::MAX.
\* (Not a claim's formula: what is left of C15 away from the wrap.)
IncreasingBeforeWrap ==
    \A c \in Calls :
        start_offset[c] <= curr_max_offset_id =>
            \A i, j \in 1..Len(allocated[c]) : i < j => allocated[c][i] < allocated[c][j]

----------------------------------------------------------------------------
(* C16 *)

\* The second loop of call c is at an Add or an Upsert for an identifier
\* that is in neither map: the operation is admitted as a fresh insert.
AtInsert(c) ==
    /\ pc[c] = "replay"
    /\ idx[c] <= Len(logs[c])
    /\ log_record(c).operation \in {"Add", "Upsert"}
    /\ ~contains_key(existing_id_to_materialized[c], log_record(c).id)
    /\ ~contains_key(new_id_to_materialized[c], log_record(c).id)

\* The metadata patch of the log record cannot be converted.
FailsCoercion(record) ==
    /\ is_some(record.metadata)
    /\ update_metdata_to_metdata(record.metadata.val).tag = "Err"

\* Call c takes a step.
Steps(c) == <<pc[c], idx[c]>>' # <<pc[c], idx[c]>>

\* Call c returns the error e and no chunk.
ReturnsErr(c, e) == pc'[c] = "error" /\ res'[c] = Err(e)

\* C16, as claimed: an Add, or an Upsert acting as insert, for an
\* identifier present in neither table that carries no embedding makes the
\* call return EmbeddingMaterializationError and no records, whatever
\* precedes or follows it in the batch.
C16_NoEmbeddingFails ==
    [][\A c \in Calls :
          (AtInsert(c) /\ log_record(c).embedding = None /\ Steps(c))
              => ReturnsErr(c, "EmbeddingMaterializationError")]_vars

\* C16, amended: an Add, or an Upsert acting as insert, for an identifier
\* present in neither table that carries no embedding makes the call return
\* no records and an error, whatever precedes or follows it in the batch:
\* EmbeddingMaterializationError when it carries no metadata patch or one
\* that converts, MetadataMaterializationError when its patch fails the
\* conversion, which is made first.
C16_NoEmbeddingFailsAfterMetadata ==
    [][\A c \in Calls :
          (AtInsert(c) /\ log_record(c).embedding = None /\ Steps(c))
              => IF FailsCoercion(log_record(c))
                 THEN ReturnsErr(c, "MetadataMaterializationError")
                 ELSE ReturnsErr(c, "EmbeddingMaterializationError")]_vars

\* A call has returned EmbeddingMaterializationError at an Upsert without
\* an embedding and without a patch for an identifier in neither map, which
\* an ignored Update precedes and another log record follows.
C16_Witness ==
    \E c \in Calls :
        /\ pc[c] = "error"
        /\ res[c] = Err("EmbeddingMaterializationError")
        /\ idx[c] = 2
        /\ Len(logs[c]) = 3
        /\ logs[c][1].operation = "Update" /\ logs[c][1].id = logs[c][2].id
        /\ logs[c][2].operation = "Upsert"
        /\ logs[c][2].embedding = None /\ is_none(logs[c][2].metadata)
        /\ ~Durable(logs[c][2].id)

----------------------------------------------------------------------------
(* C17 *)

\* Call c issues a query to the record segment reader and does not go on
\* with the first loop: the query has failed.
QueryFails(c) ==
    /\ pc[c] \in {"exists", "get"}
    /\ queries'[c] # queries[c]
    /\ pc'[c] \notin {"exists", "get"}

\* C17: if an exists query or a lookup against the record segment reader
\* fails for any record of the batch, the call returns RecordSegmentError
\* and no records, no record has been created, and the counter holds the
\* value it held when the call started.
C17_ReaderFailure ==
    [][\A c \in Calls :
          QueryFails(c)
              => /\ ReturnsErr(c, "RecordSegmentError")
                 /\ curr_max_offset_id' = start_offset[c]
                 /\ allocated'[c] = <<>>
                 /\ new_id_to_materialized'[c] = EmptyMap]_vars

\* A call has returned RecordSegmentError at the lookup of its third log
\* record, after the queries for the first two had succeeded.
C17_Witness ==
    \E c \in Calls :
        /\ pc[c] = "error"
        /\ res[c] = Err("RecordSegmentError")
        /\ idx[c] = 3
        /\ Len(queries[c]) >= 4
        /\ queries[c][Len(queries[c])] = <<"get", logs[c][3].id>>
        /\ curr_max_offset_id = start_offset[c]

----------------------------------------------------------------------------
(* C18 *)

\* The second loop of call c is at an Add, an Update or an Upsert whose
\* metadata patch cannot be converted.
AtBadMetadata(c) ==
    /\ pc[c] = "replay"
    /\ idx[c] <= Len(logs[c])
    /\ log_record(c).operation \in {"Add", "Update", "Upsert"}
    /\ FailsCoercion(log_record(c))

\* C18, as claimed: any Add, Update or Upsert of the batch whose metadata
\* patch fails value-type coercion makes the call return
\* MetadataMaterializationError and no records.
C18_BadMetadataFails ==
    [][\A c \in Calls :
          (AtBadMetadata(c) /\ Steps(c))
              => ReturnsErr(c, "MetadataMaterializationError")]_vars

\* C18, amended: an Add or an Upsert that is admitted as a fresh insert (its
\* identifier is in neither table) and whose metadata patch fails value-type
\* coercion makes the call return MetadataMaterializationError and no
\* records. An Update, an Upsert for an identifier that is in a table and an
\* Add that is ignored raise no error whatever their patch: the call goes on
\* to the next log record.
C18_BadMetadataFailsInsert ==
    [][\A c \in Calls :
          (AtBadMetadata(c) /\ Steps(c))
              => IF AtInsert(c)
                 THEN ReturnsErr(c, "MetadataMaterializationError")
                 ELSE /\ pc'[c] = "replay"
                      /\ res'[c] = Pending
                      /\ idx'[c] = idx[c] + 1]_vars

\* A call has returned MetadataMaterializationError at an Add for an
\* identifier in neither map, after it went past an Update of a durable
\* identifier whose patch does not convert either.
C18_Witness ==
    \E c \in Calls :
        /\ pc[c] = "error"
        /\ res[c] = Err("MetadataMaterializationError")
        /\ idx[c] = 2
        /\ logs[c][1].operation = "Update"
        /\ Durable(logs[c][1].id)
        /\ FailsCoercion(logs[c][1])
        /\ logs[c][2].operation = "Add"
        /\ ~Durable(logs[c][2].id)
        /\ FailsCoercion(logs[c][2])

----------------------------------------------------------------------------
(* C19 *)

\* The call has ended, with a chunk or with an error.
Ended(c) == pc[c] \in {"done", "error"}

\* The positions of the batch the second loop went through before the call
\* ended: all of them when it returned a chunk, those up to the log record
\* it failed at when the second loop returned an error, none when the first
\* loop did.
ReplayedPositions(c) ==
    IF Done(c) THEN 1..Len(logs[c])
    ELSE IF pc[c] = "error" /\ res[c] # Err("RecordSegmentError") THEN 1..idx[c]
    ELSE {}

\* The log record at position i is an Add or an Upsert admitted as a fresh
\* insert: its identifier has no durable record and, before i, was not
\* inserted or was deleted since.
AdmittedAt(c, i) ==
    /\ logs[c][i].operation \in {"Add", "Upsert"}
    /\ ~Durable(logs[c][i].id)
    /\ LET before == { j \in Positions(c, logs[c][i].id, {"Add", "Upsert", "Delete"}) : j < i }
       IN  before = {} \/ logs[c][SetMax(before)].operation = "Delete"

\* The fresh inserts of the call.
Admitted(c) == { i \in ReplayedPositions(c) : AdmittedAt(c, i) }

\* C19: when a call ends, with a chunk or with an error, the counter has
\* been advanced once for each Add or Upsert admitted as a fresh insert
\* during replay, the inserts a Delete removed later and the insert whose
\* missing embedding or bad metadata failed the call included: it holds its
\* starting value plus their number (modulo 2^32), and that number is at
\* least the number of output records without a durable origin.
C19_NoRollback ==
    \A c \in Calls :
        Ended(c) =>
            /\ Len(allocated[c]) = Cardinality(Admitted(c))
            /\ curr_max_offset_id =
                   (start_offset[c] + Cardinality(Admitted(c))) % (U32Max + 1)
            /\ Done(c) => Cardinality(NewRecords(c)) <= Cardinality(Admitted(c))

\* A call has failed at an insert whose metadata patch does not convert,
\* after an insert that a Delete removed: the counter is two past its
\* starting value and no record is returned.
C19_Witness ==
    \E c \in Calls :
        /\ pc[c] = "error"
        /\ res[c] = Err("MetadataMaterializationError")
        /\ idx[c] = 3
        /\ logs[c][1].operation = "Add"
        /\ logs[c][2].operation = "Delete" /\ logs[c][2].id = logs[c][1].id
        /\ logs[c][3].operation \in {"Add", "Upsert"} /\ logs[c][3].id = logs[c][1].id
        /\ Len(allocated[c]) = 2
        /\ curr_max_offset_id = (start_offset[c] + 2) % (U32Max + 1)

----------------------------------------------------------------------------
(* C20 *)

\* The queries the first loop issues for a batch, in order: for each log
\* record an exists query and, when the segment holds the id, a lookup.
RECURSIVE QueriesFor(_, _)
QueriesFor(batch, seg) ==
    IF batch = <<>> THEN <<>>
    ELSE << <<"exists", Head(batch).id>> >>
         \o (IF Head(batch).id \in DOMAIN seg THEN << <<"get", Head(batch).id>> >> ELSE <<>>)
         \o QueriesFor(Tail(batch), seg)

IsPrefix(s, t) == Len(s) <= Len(t) /\ SubSeq(t, 1, Len(s)) = s

\* Call c is in its first loop, the durable-origin pass.
InFirstLoop(c) == pc[c] \in {"exists", "get"}

\* Nothing has been folded by call c: no offset taken, no record created,
\* the records found in the segment as the reader returned them.
NothingFolded(c) ==
    /\ allocated[c] = <<>>
    /\ curr_max_offset_id = start_offset[c]
    /\ new_id_to_materialized[c] = EmptyMap
    /\ \A id \in DOMAIN existing_id_to_materialized[c] :
           existing_id_to_materialized[c][id] =
               FromDataRecord(segment[id].data_record, segment[id].offset_id)

\* C20: within one call, the queries of the first loop are issued in batch
\* order and all of them have returned before the replay begins: as long as
\* the call is in its first loop no offset is allocated and no operation is
\* folded into a table, the replay starts with every query of the batch
\* made, and no step outside the first loop issues a query.
C20_QueriesBeforeReplay ==
    /\ [](\A c \in Calls :
             /\ IsPrefix(queries[c], QueriesFor(logs[c], segment))
             /\ InFirstLoop(c) => NothingFolded(c)
             /\ pc[c] \in {"replay", "done"} => queries[c] = QueriesFor(logs[c], segment))
    /\ [][\A c \in Calls : ~InFirstLoop(c) => queries'[c] = queries[c]]_vars

\* A call has returned after five queries for three log records, two of
\* them for the durable identifier, and after taking an offset in the
\* replay.
C20_Witness ==
    \E c \in Calls :
        /\ Done(c)
        /\ Len(logs[c]) = 3
        /\ Len(queries[c]) = 5
        /\ queries[c] = QueriesFor(logs[c], segment)
        /\ Len(allocated[c]) >= 1

----------------------------------------------------------------------------
(* C21 *)

\* The number of queries of the given kind call c has issued for id.
QueryCount(c, kind, id) ==
    Cardinality({ i \in 1..Len(queries[c]) : queries[c][i] = <<kind, id>> })

\* The first loop of call c is over and every query has returned.
FirstLoopOver(c) == pc[c] \in {"replay", "done"}

\* C21, as claimed: during the durable-origin pass the segment is queried
\* exactly once per distinct identifier of the batch: for an identifier
\* that occurs in k operations, the number of exists queries is 1, not k.
C21_OncePerIdentifier ==
    \A c \in Calls : \A id \in Ids :
        (FirstLoopOver(c) /\ Positions(c, id, Operations) # {})
            => QueryCount(c, "exists", id) = 1

\* C21, amended: during the durable-origin pass the segment is queried once
\* per log record of the batch: for an identifier that occurs in k
\* operations, k exists queries are issued, each followed by a lookup when
\* the segment holds the identifier.
C21_OncePerLogRecord ==
    \A c \in Calls : \A id \in Ids :
        FirstLoopOver(c)
            => /\ QueryCount(c, "exists", id) = Cardinality(Positions(c, id, Operations))
               /\ QueryCount(c, "get", id) =
                      IF Durable(id) THEN Cardinality(Positions(c, id, Operations)) ELSE 0

\* The first loop is over for a batch of three operations for one durable
\* identifier: three exists queries and three lookups were made for it.
C21_Witness ==
    \E c \in Calls : \E id \in Ids :
        /\ FirstLoopOver(c)
        /\ Durable(id)
        /\ Cardinality(Positions(c, id, Operations)) = 3
        /\ QueryCount(c, "exists", id) = 3
        /\ QueryCount(c, "get", id) = 3

----------------------------------------------------------------------------
(* C22 *)

\* The second loop of call c is at an Add for an identifier that is in one
\* of the two maps.
AtAddOfPresent(c) ==
    /\ pc[c] = "replay"
    /\ idx[c] <= Len(logs[c])
    /\ log_record(c).operation = "Add"
    /\ \/ contains_key(existing_id_to_materialized[c], log_record(c).id)
       \/ contains_key(new_id_to_materialized[c], log_record(c).id)

\* The batch of call c ends, for the identifier, with a Delete followed by
\* Adds only.
DeleteThenAdds(c, id) ==
    /\ Positions(c, id, {"Delete"}) # {}
    /\ \E i \in Positions(c, id, {"Add"}) : i > LastDelete(c, id)
    /\ \A i \in Positions(c, id, Operations) :
           i > LastDelete(c, id) => logs[c][i].operation = "Add"

\* C22: an Add for an identifier that is already in the existing table or
\* the new table is ignored: the step returns no error, also when the Add
\* carries no embedding, takes no offset and leaves both tables as they
\* are. So for a durable identifier, a Delete followed by Adds ends with
\* final_operation = Delete and nothing of the Adds' payloads.
C22_AddOfPresentIgnored ==
    /\ [][\A c \in Calls :
             (AtAddOfPresent(c) /\ Steps(c))
                 => /\ existing_id_to_materialized'[c] = existing_id_to_materialized[c]
                    /\ new_id_to_materialized'[c] = new_id_to_materialized[c]
                    /\ curr_max_offset_id' = curr_max_offset_id
                    /\ allocated'[c] = allocated[c]
                    /\ pc'[c] = "replay"
                    /\ res'[c] = Pending
                    /\ idx'[c] = idx[c] + 1]_vars
    /\ [](\A c \in Calls : \A id \in Ids :
             (Done(c) /\ Durable(id) /\ DeleteThenAdds(c, id))
                 => \E r \in Output(c) :
                        /\ OutputFor(c, id) = {r}
                        /\ IsDeleteAt(r, DurableOffset(id)))

\* A call has returned a chunk for a batch that deletes a durable
\* identifier, adds it without an embedding and adds it with a payload: its
\* record is a Delete.
C22_Witness ==
    \E c \in Calls : \E id \in Ids :
        /\ Done(c)
        /\ Durable(id)
        /\ Len(logs[c]) = 3
        /\ logs[c][1].id = id /\ logs[c][1].operation = "Delete"
        /\ logs[c][2].id = id /\ logs[c][2].operation = "Add" /\ logs[c][2].embedding = None
        /\ logs[c][3].id = id /\ logs[c][3].operation = "Add" /\ logs[c][3].document # None
        /\ \E r \in OutputFor(c, id) : r.final_operation = "Delete" /\ r.final_document = None

----------------------------------------------------------------------------
(* C23 *)

\* The log record with its operation replaced by Add.
AsAdd(record) == [record EXCEPT !.operation = "Add"]

\* The log records of call c that follow the one the second loop is at.
Rest(c) == SubSeq(logs[c], idx[c] + 1, Len(logs[c]))

\* The records the first loop leaves in existing_id_to_materialized for a
\* batch: one for each identifier of the batch that the segment holds.
ExistingOf(batch, seg) ==
    LET ids == { batch[i].id : i \in 1..Len(batch) } \cap DOMAIN seg
    IN  [id \in ids |-> FromDataRecord(seg[id].data_record, seg[id].offset_id)]

\* C23: when the second loop is at an Upsert for an identifier that is in
\* neither table, the Upsert does what an Add with the same payload does:
\* the same tables, the same counter, the same offset taken and the same
\* error after the step, the same result of the call and the same counter
\* at its end; when the step succeeds the record it creates has the offset
\* the counter held, user_id set and final_operation = Add. (What a call
\* returns is its maps replayed from the first loop's tables.)
C23_UpsertAsAdd ==
    \A c \in Calls :
        /\ (AtInsert(c) /\ log_record(c).operation = "Upsert")
               => LET existing == existing_id_to_materialized[c]
                      new      == new_id_to_materialized[c]
                      upsert   == ReplayUpsert(existing, new, curr_max_offset_id, log_record(c))
                      add      == ReplayAdd(existing, new, curr_max_offset_id,
                                            AsAdd(log_record(c)))
                  IN  /\ upsert = add
                      /\ ReplayAll(existing, new, curr_max_offset_id,
                                   <<log_record(c)>> \o Rest(c))
                             = ReplayAll(existing, new, curr_max_offset_id,
                                         <<AsAdd(log_record(c))>> \o Rest(c))
                      /\ upsert.error = None
                             => LET r == upsert.new[log_record(c).id]
                                IN  /\ r.offset_id = curr_max_offset_id
                                    /\ r.user_id = log_record(c).id
                                    /\ r.final_operation = "Add"
                                    /\ is_none(r.data_record)
        /\ (Ended(c) /\ res[c] # Err("RecordSegmentError"))
               => /\ res[c] = ReplayAll(ExistingOf(logs[c], segment), EmptyMap,
                                        start_offset[c], logs[c]).res
                  /\ curr_max_offset_id = ReplayAll(ExistingOf(logs[c], segment), EmptyMap,
                                                    start_offset[c], logs[c]).counter

\* The second loop has gone past an Upsert for an identifier that was in
\* neither map, after an operation for another identifier: the identifier
\* is in new_id_to_materialized with final_operation = Add and its user_id.
C23_Witness ==
    \E c \in Calls :
        /\ pc[c] = "replay"
        /\ idx[c] = 3
        /\ logs[c][2].operation = "Upsert"
        /\ ~Durable(logs[c][2].id)
        /\ logs[c][1].id # logs[c][2].id
        /\ contains_key(new_id_to_materialized[c], logs[c][2].id)
        /\ new_id_to_materialized[c][logs[c][2].id].final_operation = "Add"
        /\ new_id_to_materialized[c][logs[c][2].id].user_id = logs[c][2].id
        /\ new_id_to_materialized[c][logs[c][2].id].offset_id = allocated[c][Len(allocated[c])]

----------------------------------------------------------------------------
(* C24 *)

\* C24: in every output, a record with a durable origin never has
\* final_operation = Add: the Add set in the first loop is always
\* overwritten during the replay, so final_operation = Add occurs only on
\* records without a durable origin.
C24_NoDurableAdd ==
    \A c \in Calls :
        Done(c) =>
            \A r \in Output(c) : is_some(r.data_record) => r.final_operation # "Add"

\* The same, for the records of the identifiers that receive an Update, an
\* Upsert or a Delete. (Not a claim's formula: what is left of C24 when the
\* durable identifier is not touched by Adds alone.)
NoDurableAddWhenTouched ==
    \A c \in Calls :
        Done(c) =>
            \A r \in Output(c) :
                (/\ is_some(r.data_record)
                 /\ Positions(c, RecordId(r), {"Update", "Upsert", "Delete"}) # {})
                    => r.final_operation # "Add"

----------------------------------------------------------------------------
(* C25 *)

\* The Updates, Upserts and Deletes of the batch for the identifier.
Changes(c, id) == Positions(c, id, {"Update", "Upsert", "Delete"})

\* C25: for every identifier with a durable origin that receives at least
\* one Update, Upsert or Delete in the batch, the record the call returns
\* for it has the kind of the last Update, Upsert or Delete for the
\* identifier as final_operation, whatever Adds the batch holds for it, and
\* the durable offset as offset_id; the record keeps the durable offset all
\* along the call.
C25_LastChangeDecides ==
    \A c \in Calls :
        /\ \A id \in Ids :
               (Done(c) /\ Durable(id) /\ Changes(c, id) # {})
                   => \E r \in Output(c) :
                          /\ OutputFor(c, id) = {r}
                          /\ r.final_operation = logs[c][SetMax(Changes(c, id))].operation
                          /\ r.offset_id = DurableOffset(id)
        /\ \A id \in DOMAIN existing_id_to_materialized[c] :
               existing_id_to_materialized[c][id].offset_id = DurableOffset(id)

\* A call has returned for a batch that deletes a durable identifier, then
\* upserts it, then adds it: its record is an Upsert at the durable offset.
C25_Witness ==
    \E c \in Calls : \E id \in Ids :
        /\ Done(c)
        /\ Durable(id)
        /\ Len(logs[c]) = 3
        /\ logs[c][1].id = id /\ logs[c][1].operation = "Delete"
        /\ logs[c][2].id = id /\ logs[c][2].operation = "Upsert"
        /\ logs[c][3].id = id /\ logs[c][3].operation = "Add"
        /\ \E r \in OutputFor(c, id) :
              r.final_operation = "Upsert" /\ r.offset_id = DurableOffset(id)

====
